---- MODULE Spec2Model ----
(***************************************************************************)
(* FlowForge workflow engine (backend/src/engine/WorkflowEngine.js).       *)
(*                                                                         *)
(* The engine is a set of async methods on one object.  A step of the      *)
(* model is what one call does between two suspension points: from where   *)
(* it is resumed up to the next `await` of an external hook of a node      *)
(* (initialize(), execute(), cleanup()) or of cleanupExecution().  Awaits  *)
(* of the engine's own already-settled promises (the return of a nested    *)
(* executeFromNode / executeConnectedNodes) are continued in the same      *)
(* step.                                                                   *)
(***************************************************************************)
EXTENDS Integers, Sequences, FiniteSets, TLC

----------------------------------------------------------------------------
(* Bounds of the model *)

\* number of executeWorkflow calls made on the engine
MaxRuns == 1
\* number of stopExecution calls made on the engine
MaxStops == 2
\* node count and connection count of the enumerated validation inputs
MaxGraphNodes == 3
MaxGraphConns == 3
\* executeWorkflow calls of the history specification beyond the capacity
HistExtra == 2
\* executeWorkflow calls in flight at the same time
MaxConcurrent == 2
\* connections of the longest chain walked
MaxChain == 3
\* widths of the two fan-out layers of the workflow that reaches the cap
CapFanFirst == 11
CapFanSecond == 10

(* Program constants *)

\* this.maxHistorySize = 1000
maxHistorySize == 1000
\* if (nodeInfo.executions >= 100)
maxExecutions == 100

----------------------------------------------------------------------------
(* Values *)

\* a port that the node did not populate reads as undefined
Undefined == 0
OutPorts == {"true", "false"}
InPorts == {"input", "aux"}

PortNo(p) == IF p = "true" THEN 1 ELSE 2
\* the value node n puts on its output port p
ValueOf(n, p) == 10 * n + PortNo(p)

\* execute() resolved with undefined / null
NoResult == <<>>
\* execute() resolved with an object that populates exactly the ports in S
ResultOf(n, S) == [p \in OutPorts |-> IF p \in S THEN ValueOf(n, p) ELSE Undefined]

\* an inputData object without keys
NoInput == [p \in InPorts |-> Undefined]

NoError == [kind |-> "none", node |-> 0]
Err(k, n) == [kind |-> k, node |-> n]

----------------------------------------------------------------------------
(* Workflow definitions *)

Node(i, t) == [id |-> i, type |-> t]
Conn(s, sp, t, tp) == [source |-> s, sourcePort |-> sp, target |-> t, targetPort |-> tp]
Workflow(ns, cs) == [hasNodes |-> TRUE, hasConnections |-> TRUE, nodes |-> ns, connections |-> cs]

\* trigger "1" wired to action "2"
WfChain == Workflow(<<Node(1, "trigger"), Node(2, "action")>>,
                    <<Conn(1, "true", 2, "input")>>)
\* T -> [X, Y]
WfFanOut == Workflow(<<Node(1, "trigger"), Node(2, "action"), Node(3, "action")>>,
                     <<Conn(1, "true", 2, "input"), Conn(1, "true", 3, "input")>>)
\* if/else: the true port feeds 2, the false port feeds 3
WfBranch == Workflow(<<Node(1, "trigger"), Node(2, "action"), Node(3, "action")>>,
                     <<Conn(1, "true", 2, "input"), Conn(1, "false", 3, "input")>>)
\* two connections to one target, on two input ports
WfTwoPorts == Workflow(<<Node(1, "trigger"), Node(2, "action")>>,
                       <<Conn(1, "true", 2, "input"), Conn(1, "false", 2, "aux")>>)
\* two connections to one target, on the same input port
WfSamePort == Workflow(<<Node(1, "trigger"), Node(2, "action")>>,
                       <<Conn(1, "true", 2, "input"), Conn(1, "false", 2, "input")>>)
\* T -> B, T -> C, B -> D, C -> D
WfDiamond == Workflow(<<Node(1, "trigger"), Node(2, "action"), Node(3, "action"), Node(4, "action")>>,
                      <<Conn(1, "true", 2, "input"), Conn(1, "true", 3, "input"),
                        Conn(2, "true", 4, "input"), Conn(3, "true", 4, "input")>>)
\* two triggers feeding one action
WfTwoTriggers == Workflow(<<Node(1, "trigger"), Node(2, "trigger"), Node(3, "action")>>,
                          <<Conn(1, "true", 3, "input"), Conn(2, "true", 3, "input")>>)
\* three triggers feeding one action
WfThreeTriggers ==
  Workflow(<<Node(1, "trigger"), Node(2, "trigger"), Node(3, "trigger"), Node(4, "action")>>,
           <<Conn(1, "true", 4, "input"), Conn(2, "true", 4, "input"), Conn(3, "true", 4, "input")>>)
WfNoTrigger == Workflow(<<Node(1, "action")>>, <<>>)
WfEmpty == Workflow(<<>>, <<>>)
WfCycle == Workflow(<<Node(1, "trigger"), Node(2, "action"), Node(3, "action")>>,
                    <<Conn(1, "true", 2, "input"), Conn(2, "true", 3, "input"),
                      Conn(3, "true", 2, "input")>>)
\* T -> A, A -> A
WfSelfLoop == Workflow(<<Node(1, "trigger"), Node(2, "action")>>,
                       <<Conn(1, "true", 2, "input"), Conn(2, "true", 2, "input")>>)
\* T -> T
WfSelfTrigger == Workflow(<<Node(1, "trigger")>>, <<Conn(1, "true", 1, "input")>>)
WfDangling == Workflow(<<Node(1, "trigger")>>, <<Conn(1, "true", 9, "input")>>)
WfNoNodes == [hasNodes |-> FALSE, hasConnections |-> TRUE, nodes |-> <<>>, connections |-> <<>>]
WfNoConnections == [hasNodes |-> TRUE, hasConnections |-> FALSE,
                    nodes |-> <<Node(1, "trigger")>>, connections |-> <<>>]
WfUnknownType == Workflow(<<Node(1, "trigger"), Node(2, "unregistered")>>,
                          <<Conn(1, "true", 2, "input")>>)

NodeIds(w) == {w.nodes[i].id : i \in 1..Len(w.nodes)}

----------------------------------------------------------------------------
(* validateWorkflow and the cycle check *)

\* the ids, in order of first appearance, that come into the Map as the
\* target of a connection without being the id of a node
RECURSIVE AddedKeys(_, _, _, _)
AddedKeys(conns, i, known, keys) ==
  IF i > Len(conns) THEN keys
  ELSE IF conns[i].target \in known THEN AddedKeys(conns, i + 1, known, keys)
  ELSE AddedKeys(conns, i + 1, known \cup {conns[i].target}, Append(keys, conns[i].target))

\* the sources of the connections into k, in the order of the connections
SourcesInto(conns, k) ==
  LET into == SelectSeq(conns, LAMBDA c : c.target = k) IN
  [i \in 1..Len(into) |-> into[i].source]

\* the Map target -> [sources]: its keys in insertion order (the nodes, then
\* the other targets), and the dependency list of each key
buildDependencyGraph(w) ==
  [keys |-> [i \in 1..Len(w.nodes) |-> w.nodes[i].id]
            \o AddedKeys(w.connections, 1, NodeIds(w), <<>>),
   deps |-> [k \in NodeIds(w) \cup {w.connections[i].target : i \in 1..Len(w.connections)} |->
               SourcesInto(w.connections, k)]]

\* graph.get(nodeId) || []
DependenciesOf(graph, n) == IF n \in DOMAIN graph.deps THEN graph.deps[n] ELSE <<>>

\* the inner closure hasCycle(nodeId); visited and recursionStack are the
\* closure's shared sets, threaded through the calls
RECURSIVE hasCycle(_, _, _)
RECURSIVE hasCycleLoop(_, _, _, _)
hasCycle(graph, nodeId, m) ==
  hasCycleLoop(graph, nodeId, 1,
               [found |-> FALSE,
                visited |-> m.visited \cup {nodeId},
                recursionStack |-> m.recursionStack \cup {nodeId}])

hasCycleLoop(graph, nodeId, i, m) ==
  LET dependencies == DependenciesOf(graph, nodeId) IN
  IF i > Len(dependencies)
  THEN [m EXCEPT !.recursionStack = @ \ {nodeId}]
  ELSE LET dep == dependencies[i] IN
       IF dep \notin m.visited
       THEN LET r == hasCycle(graph, dep, m) IN
            IF r.found THEN r ELSE hasCycleLoop(graph, nodeId, i + 1, r)
       ELSE IF dep \in m.recursionStack
            THEN [m EXCEPT !.found = TRUE]
            ELSE hasCycleLoop(graph, nodeId, i + 1, m)

\* a DFS that only starts from the first key
CycleFromFirstRoot(graph, k, m) ==
  IF Len(graph.keys) = 0 THEN FALSE
  ELSE hasCycle(graph, graph.keys[1], m).found

RECURSIVE CycleFromRoots(_, _, _)
CycleFromRoots(graph, k, m) ==
  IF k > Len(graph.keys) THEN FALSE
  ELSE IF graph.keys[k] \notin m.visited
       THEN LET r == hasCycle(graph, graph.keys[k], m) IN
            IF r.found THEN TRUE ELSE CycleFromRoots(graph, k + 1, r)
       ELSE CycleFromRoots(graph, k + 1, m)

\* a search that leaves out the connections from a node to itself
hasCircularDependenciesButSelf(w) ==
  CycleFromRoots(buildDependencyGraph(
                   [w EXCEPT !.connections = SelectSeq(@, LAMBDA c : c.source # c.target)]), 1,
                 [found |-> FALSE, visited |-> {}, recursionStack |-> {}])

hasCircularDependencies(w) ==
  CycleFromRoots(buildDependencyGraph(w), 1,
                 [found |-> FALSE, visited |-> {}, recursionStack |-> {}])

\* a loop over the connections that stops at the first unknown reference
ReferenceErrorsFirstOnly(w) ==
  LET unknown == SelectSeq(w.connections,
                           LAMBDA c : c.source \notin NodeIds(w) \/ c.target \notin NodeIds(w))
  IN IF Len(unknown) = 0 THEN <<>>
     ELSE IF unknown[1].source \notin NodeIds(w)
          THEN <<Err("unknown source", unknown[1].source)>>
          ELSE <<Err("unknown target", unknown[1].target)>>

\* the errors of the loop over the connections: for each connection in
\* order, one for an unknown source, then one for an unknown target
ReferenceErrors(w) ==
  LET ends == [i \in 1..(2 * Len(w.connections)) |->
                 IF i % 2 = 1
                 THEN Err("unknown source", w.connections[(i + 1) \div 2].source)
                 ELSE Err("unknown target", w.connections[i \div 2].target)]
  IN SelectSeq(ends, LAMBDA e : e.node \notin NodeIds(w))

\* raised: reading .length of a missing nodes array, or iterating a missing
\* connections array, throws a TypeError out of validateWorkflow
validateWorkflow(w) ==
  IF ~w.hasNodes \/ ~w.hasConnections
  THEN [raised |-> TRUE, valid |-> FALSE, errors |-> <<Err("type error", 0)>>]
  ELSE LET e1 == IF Len(w.nodes) = 0 THEN <<Err("no nodes", 0)>> ELSE <<>>
           e2 == e1 \o ReferenceErrors(w)
           e3 == IF hasCircularDependencies(w)
                 THEN Append(e2, Err("circular", 0)) ELSE e2
       IN [raised |-> FALSE, valid |-> Len(e3) = 0, errors |-> e3]

----------------------------------------------------------------------------
(* Engine state *)

VARIABLES
  activeExecutions,   \* keys of this.activeExecutions (executionId -> execution)
  executionHistory,   \* this.executionHistory, index 1 is the newest record
  exec,               \* the execution objects in use, by executionId
  call,               \* their executeWorkflow calls, by executionId
  stop,               \* the stopExecution calls, in the order they were made
  moved,              \* number of moveToHistory calls made so far
  started,            \* number of executeWorkflow calls made so far
  vwf,                \* a workflow handed to validateWorkflow on its own
  vres                \* what validateWorkflow made of it

vars == <<activeExecutions, executionHistory, exec, call, stop, moved, started, vwf, vres>>

\* what the latest executeFromNode call of a node returned, if it returned
NoReturn == [returned |-> FALSE, result |-> NoResult, connectedResults |-> <<>>, calls |-> <<>>]

\* the entry initializeNodes stores in execution.nodes; invocations and
\* cleanups count the calls of the instance's execute() and cleanup() hooks
NewNodeInfo ==
  [status |-> "initialized", executions |-> 0, lastResult |-> NoResult,
   error |-> NoError, invocations |-> 0, cleanups |-> 0, ret |-> NoReturn]

\* the names and values of the variables that nodes set
VarNames == {"x", "y"}
VarValues == {1, 2}
\* variables: new Map()
NoVariables == [name \in VarNames |-> Undefined]

\* the options argument of executeWorkflow: maxNodes is 0 when the caller
\* gives none
NoOptions == [maxNodes |-> 0]
\* options: { ..., maxNodes: options.maxNodes || 100, ...options }
OptionsOf(options) == [maxNodes |-> IF options.maxNodes = 0 THEN 100 ELSE options.maxNodes]

\* the execution object built at the top of executeWorkflow; overdue says
\* whether the time elapsed since startTime exceeds options.timeout
NewExecution(w) ==
  [wf |-> w, status |-> "running", endTime |-> FALSE, nodes |-> <<>>, order |-> <<>>,
   errors |-> <<>>, error |-> NoError, overdue |-> FALSE, variables |-> NoVariables,
   options |-> OptionsOf(NoOptions), cleanupWarnings |-> {}]

NoSnapshot == [status |-> "none", nodeExecutions |-> <<>>, variables |-> NoVariables]

\* position of an executeWorkflow call
NewCall ==
  [pc |-> "start", i |-> 0, trig |-> 0, stack |-> <<>>, results |-> <<>>,
   pending |-> "none", outcome |-> "none", result |-> NoSnapshot]

\* one activation of executeFromNode: the node, the inputData it was given,
\* the result of its execute(), and the loop of executeConnectedNodes (ti is
\* the target being processed, calls lists the executeFromNode calls it made)
NewFrame(nodeId, inputData) ==
  [nodeId |-> nodeId, inputData |-> inputData, result |-> NoResult, ti |-> 0,
   connectedResults |-> <<>>, calls |-> <<>>]

TriggerData == NoInput

\* nodeRegistry: the registered types and the category of each
RegisteredTypes == {"trigger", "action"}
Category(type) == type

findTriggerNodes(w) ==
  SelectSeq(w.nodes, LAMBDA n : n.type \in RegisteredTypes /\ Category(n.type) = "trigger")

\* the connections are followed against their direction
getOutgoingConnectionsBackwards(w, nodeId) == SelectSeq(w.connections, LAMBDA c : c.target = nodeId)

getOutgoingConnections(w, nodeId) == SelectSeq(w.connections, LAMBDA c : c.source = nodeId)
getIncomingConnections(w, nodeId) == SelectSeq(w.connections, LAMBDA c : c.target = nodeId)

\* what getInputData returns: the value of a port, or (whole) the inputData
\* object itself
PortValue(v) == [whole |-> FALSE, value |-> v, object |-> NoInput]
WholeInput(inputData) == [whole |-> TRUE, value |-> Undefined, object |-> inputData]

\* context.getInputData(port) of the context that createExecutionContext
\* builds for a dispatch of nodeId with inputData, called while execution e
\* is in the given state
getInputData(e, nodeId, inputData, port) ==
  LET connections == getIncomingConnections(e.wf, nodeId)
      found == SelectSeq(connections, LAMBDA c : c.targetPort = port)
  IN IF /\ Len(found) > 0
        /\ found[1].source \in DOMAIN e.nodes
        /\ e.nodes[found[1].source].lastResult # NoResult
     THEN PortValue(e.nodes[found[1].source].lastResult[found[1].sourcePort])
     ELSE IF inputData[port] # Undefined THEN PortValue(inputData[port])
          ELSE WholeInput(inputData)

\* context.getVariable(name) and context.setVariable(name, value) of a
\* context that createExecutionContext built for a node of run r: the
\* closures hold the execution object of that run; ex is the collection of
\* the execution objects
getVariable(ex, r, name) == ex[r].variables[name]

\* a store shared by the runs of the engine
setVariableShared(ex, r, name, value) ==
  [q \in DOMAIN ex |-> [ex[q] EXCEPT !.variables[name] = value]]

setVariable(ex, r, name, value) == [ex EXCEPT ![r].variables[name] = value]

\* the distinct targets of the connections, in the order of their first one
RECURSIVE TargetsInOrder(_, _, _)
TargetsInOrder(conns, i, targets) ==
  IF i > Len(conns) THEN targets
  ELSE IF \E k \in 1..Len(targets) : targets[k] = conns[i].target
  THEN TargetsInOrder(conns, i + 1, targets)
  ELSE TargetsInOrder(conns, i + 1, Append(targets, conns[i].target))

\* the targets are visited from the last one to the first
GroupByTargetLastFirst(conns) ==
  LET targets == TargetsInOrder(conns, 1, <<>>) IN
  [k \in 1..Len(targets) |->
     [target |-> targets[Len(targets) + 1 - k],
      connections |-> SelectSeq(conns, LAMBDA c : c.target = targets[Len(targets) + 1 - k])]]

\* the targetNodes Map of executeConnectedNodes: the distinct targets in the
\* order of their first connection, each with its connections in order
GroupByTarget(conns) ==
  LET targets == TargetsInOrder(conns, 1, <<>>) IN
  [k \in 1..Len(targets) |->
     [target |-> targets[k],
      connections |-> SelectSeq(conns, LAMBDA c : c.target = targets[k])]]

TargetGroups(w, nodeId) == GroupByTarget(getOutgoingConnections(w, nodeId))

\* sourceResult && sourceResult[conn.sourcePort] !== undefined
PortDefined(sourceResult, conn) ==
  sourceResult # NoResult /\ sourceResult[conn.sourcePort] # Undefined

hasValidOutput(sourceResult, connections) ==
  \E k \in 1..Len(connections) : PortDefined(sourceResult, connections[k])

\* the first connection to a port wins
RECURSIVE PrepareInputFirstWins(_, _, _, _)
PrepareInputFirstWins(sourceResult, connections, k, inputData) ==
  IF k > Len(connections) THEN inputData
  ELSE LET c == connections[k] IN
       PrepareInputFirstWins(sourceResult, connections, k + 1,
         IF PortDefined(sourceResult, c) /\ inputData[c.targetPort] = Undefined
         THEN [inputData EXCEPT ![c.targetPort] = sourceResult[c.sourcePort]]
         ELSE inputData)

\* the inputData object built for one target
RECURSIVE PrepareInputData(_, _, _, _)
PrepareInputData(sourceResult, connections, k, inputData) ==
  IF k > Len(connections) THEN inputData
  ELSE LET c == connections[k] IN
       PrepareInputData(sourceResult, connections, k + 1,
         IF PortDefined(sourceResult, c)
         THEN [inputData EXCEPT ![c.targetPort] = sourceResult[c.sourcePort]]
         ELSE inputData)

\* no limit test at all
LimitNever(nodeInfo) == FALSE

\* a node that was dispatched once is not dispatched again
LimitOneDispatch(nodeInfo) == nodeInfo.executions >= 1

\* the limit test compares after the increment
LimitOffByOne(nodeInfo) == nodeInfo.executions > maxExecutions

\* if (nodeInfo.executions >= 100)
LimitReached(nodeInfo) == nodeInfo.executions >= maxExecutions

Top(stack) == stack[Len(stack)]
Pop(stack) == SubSeq(stack, 1, Len(stack) - 1)
SetLastOutcome(calls, o) == [calls EXCEPT ![Len(calls)].outcome = o]

\* A run in the middle of a step: e is the execution object, c the call,
\* del says that the step deleted the run from activeExecutions, mode is how
\* the walk left off ("await": a node's execute() is awaited; "returned" /
\* "threw": the top-level executeFromNode call returned / threw `thrown`).
Machine(e, c) == [e |-> e, c |-> c, del |-> FALSE, mode |-> "none", thrown |-> NoError]

\* the executions counter is incremented before the limit test
executeFromNodeCountsFirst(m, nodeId, inputData) ==
  IF nodeId \notin DOMAIN m.e.nodes
  THEN [m EXCEPT !.mode = "threw", !.thrown = Err("not found", nodeId)]
  ELSE IF LimitReached(m.e.nodes[nodeId])
  THEN [m EXCEPT !.e.nodes[nodeId].executions = @ + 1,
                 !.mode = "threw", !.thrown = Err("limit", nodeId)]
  ELSE [m EXCEPT !.e.nodes[nodeId] = [@ EXCEPT !.status = "executing",
                                                !.executions = @ + 1,
                                                !.invocations = @ + 1,
                                                !.ret = NoReturn],
                 !.c.stack = Append(@, NewFrame(nodeId, inputData)),
                 !.mode = "await"]

\* executeFromNode up to the await of the node's execute()
executeFromNode(m, nodeId, inputData) ==
  IF nodeId \notin DOMAIN m.e.nodes
  THEN [m EXCEPT !.mode = "threw", !.thrown = Err("not found", nodeId)]
  ELSE IF LimitReached(m.e.nodes[nodeId])
  THEN [m EXCEPT !.mode = "threw", !.thrown = Err("limit", nodeId)]
  ELSE [m EXCEPT !.e.nodes[nodeId] = [@ EXCEPT !.status = "executing",
                                                !.executions = @ + 1,
                                                !.invocations = @ + 1,
                                                !.ret = NoReturn],
                 !.c.stack = Append(@, NewFrame(nodeId, inputData)),
                 !.mode = "await"]

\* the loop of executeConnectedNodes of the top frame, from target ti on,
\* and, when the loop is done, the return of the frame's executeFromNode
RECURSIVE executeConnectedNodes(_)
RECURSIVE ReturnFromNode(_)
executeConnectedNodes(m) ==
  LET d == Len(m.c.stack)
      f == m.c.stack[d]
      groups == TargetGroups(m.e.wf, f.nodeId)
  IN IF f.ti > Len(groups) THEN ReturnFromNode(m)
     ELSE LET g == groups[f.ti] IN
          IF ~hasValidOutput(f.result, g.connections)
          THEN executeConnectedNodes([m EXCEPT !.c.stack[d].ti = @ + 1])
          ELSE LET inputData == PrepareInputData(f.result, g.connections, 1, NoInput)
                   m1 == [m EXCEPT !.c.stack[d].calls =
                             Append(@, [target |-> g.target, inputData |-> inputData,
                                        outcome |-> "pending"])]
                   m2 == executeFromNode(m1, g.target, inputData)
               IN IF m2.mode = "await" THEN m2
                  ELSE \* thrown before the await: caught and logged by the loop
                       executeConnectedNodes(
                         [m2 EXCEPT !.c.stack[d].calls = SetLastOutcome(@, m2.thrown.kind),
                                    !.c.stack[d].ti = @ + 1,
                                    !.mode = m1.mode,
                                    !.thrown = m1.thrown])

ReturnFromNode(m) ==
  LET d == Len(m.c.stack)
      f == m.c.stack[d]
      ret == [nodeId |-> f.nodeId, result |-> f.result]
      m1 == [m EXCEPT !.e.nodes[f.nodeId].ret =
                        [returned |-> TRUE, result |-> f.result,
                         connectedResults |-> f.connectedResults, calls |-> f.calls],
                      !.c.stack = Pop(@)]
  IN IF d = 1
     THEN [m1 EXCEPT !.mode = "returned", !.c.results = Append(@, ret)]
     ELSE executeConnectedNodes(
            [m1 EXCEPT !.c.stack[d - 1].connectedResults = Append(@, ret),
                       !.c.stack[d - 1].calls = SetLastOutcome(@, "ok"),
                       !.c.stack[d - 1].ti = @ + 1])

\* the node's execute() resolved with `result`: lines 240-267
NodeCompleted(m, result) ==
  LET d == Len(m.c.stack)
      n == m.c.stack[d].nodeId
  IN executeConnectedNodes(
       [m EXCEPT !.e.nodes[n] = [@ EXCEPT !.status = "completed", !.lastResult = result],
                 !.c.stack[d].result = result,
                 !.c.stack[d].ti = 1])

\* a rejection that no executeConnectedNodes loop catches: every caller's
\* executeFromNode fails in turn
RECURSIVE NodeFailedPropagates(_)
NodeFailedPropagates(m) ==
  LET d == Len(m.c.stack)
      n == m.c.stack[d].nodeId
      err == IF m.thrown = NoError THEN Err("exec", n) ELSE m.thrown
      m1 == [m EXCEPT !.e.nodes[n] = [@ EXCEPT !.status = "failed", !.error = err],
                      !.e.errors = Append(@, [nodeId |-> n, error |-> err]),
                      !.c.stack = Pop(@),
                      !.thrown = err]
  IN IF d = 1 THEN [m1 EXCEPT !.mode = "threw"] ELSE NodeFailedPropagates(m1)

\* the node's execute() rejected: the catch of executeFromNode (lines 268-286)
\* and the catch of the caller's executeConnectedNodes loop
NodeFailed(m) ==
  LET d == Len(m.c.stack)
      n == m.c.stack[d].nodeId
      err == Err("exec", n)
      m1 == [m EXCEPT !.e.nodes[n] = [@ EXCEPT !.status = "failed", !.error = err],
                      !.e.errors = Append(@, [nodeId |-> n, error |-> err]),
                      !.c.stack = Pop(@)]
  IN IF d = 1
     THEN [m1 EXCEPT !.mode = "threw", !.thrown = err]
     ELSE executeConnectedNodes(
            [m1 EXCEPT !.c.stack[d - 1].calls = SetLastOutcome(@, "exec"),
                       !.c.stack[d - 1].ti = @ + 1])

----------------------------------------------------------------------------
(* executeWorkflow, run level *)

\* a loop that leaves out the last entry of execution.nodes
cleanupExecutionSkipsLast(e, i) ==
  IF i + 1 < Len(e.order)
  THEN [e |-> [e EXCEPT !.nodes[e.order[i + 1]].cleanups = @ + 1], i |-> i + 1, done |-> FALSE]
  ELSE [e |-> e, i |-> i, done |-> TRUE]

\* one pass of the for-of loop of cleanupExecution: after the cleanup() hook
\* of entry i of execution.nodes (i = 0: on entry), either the hook of the
\* next entry is called and awaited, or the loop is over.  The loop iterates
\* the live Map, so it sees entries added while a hook was awaited.
cleanupExecution(e, i) ==
  IF i < Len(e.order)
  THEN [e |-> [e EXCEPT !.nodes[e.order[i + 1]].cleanups = @ + 1], i |-> i + 1, done |-> FALSE]
  ELSE [e |-> e, i |-> i, done |-> TRUE]

\* one try/catch around the whole loop: the first cleanup() that rejects
\* ends the loop
cleanupHookSettledEndsLoop(e, i, ok) ==
  IF ok THEN cleanupExecution(e, i)
  ELSE [e |-> [e EXCEPT !.cleanupWarnings = @ \cup {e.order[i]}], i |-> Len(e.order),
        done |-> TRUE]

\* the awaited cleanup() hook of entry i has settled: a rejection is caught
\* inside the loop and logged as a warning (cleanupWarnings holds the nodes
\* so logged), and the loop goes on
cleanupHookSettled(e, i, ok) ==
  cleanupExecution(IF ok THEN e ELSE [e EXCEPT !.cleanupWarnings = @ \cup {e.order[i]}], i)

\* the record moveToHistory builds; seq numbers the moveToHistory calls
HistoryRecord(e, id, seq) ==
  [id |-> id, status |-> e.status, endTime |-> e.endTime, nodeCount |-> Len(e.order),
   errorCount |-> Len(e.errors), error |-> e.error, seq |-> seq]

\* the record is appended at the end and the newest records are trimmed
moveToHistoryAppends(history, e, id, seq) ==
  LET h == Append(history, HistoryRecord(e, id, seq)) IN
  IF Len(h) > maxHistorySize THEN SubSeq(h, 1, maxHistorySize) ELSE h

moveToHistory(history, e, id, seq) ==
  LET h == <<HistoryRecord(e, id, seq)>> \o history IN
  IF Len(h) > maxHistorySize THEN SubSeq(h, 1, maxHistorySize) ELSE h

getExecutionHistory(limit) ==
  SubSeq(executionHistory, 1, IF limit < Len(executionHistory) THEN limit ELSE Len(executionHistory))

\* the snapshot taken of every entry of the activeExecutions map
getActiveExecutions ==
  {[id |-> r, status |-> exec[r].status, nodeCount |-> Len(exec[r].order)] :
     r \in activeExecutions}

getExecutionResult(e) ==
  [status |-> e.status,
   nodeExecutions |-> [n \in DOMAIN e.nodes |->
                         [status |-> e.nodes[n].status, executions |-> e.nodes[n].executions]],
   variables |-> e.variables]

\* a run without node instances is left in activeExecutions
BeginFinallyKeepsActive(m) ==
  LET s == cleanupExecution(m.e, 0) IN
  IF s.done THEN [m EXCEPT !.c.pc = "move"]
  ELSE [m EXCEPT !.e = s.e, !.c.pc = "cleanup", !.c.i = s.i]

\* the finally block up to its first await
BeginFinally(m) ==
  LET s == cleanupExecution(m.e, 0) IN
  IF s.done THEN [m EXCEPT !.c.pc = "move", !.del = TRUE]
  ELSE [m EXCEPT !.e = s.e, !.c.pc = "cleanup", !.c.i = s.i]

\* the catch block of executeWorkflow, then the finally block
Fail(m, err) ==
  BeginFinally([m EXCEPT !.e.endTime = TRUE,
                         !.e.status = "failed",
                         !.e.error = err,
                         !.e.errors = Append(@, [nodeId |-> 0, error |-> err]),
                         !.c.stack = <<>>,
                         !.c.pending = "throw"])

\* lines 68-79, then the finally block
Complete(m) ==
  LET e1 == [m.e EXCEPT !.endTime = TRUE, !.status = "completed"] IN
  BeginFinally([m EXCEPT !.e = e1,
                         !.c.pending = "return",
                         !.c.result = getExecutionResult(e1)])

\* the call of executeFromNode for trigger t of the for-of loop at line 63
DispatchTrigger(m, t) ==
  LET triggerNodes == findTriggerNodes(m.e.wf)
      m2 == executeFromNode([m EXCEPT !.c.trig = t], triggerNodes[t].id, TriggerData)
  IN IF m2.mode = "await" THEN [m2 EXCEPT !.c.pc = "exec"] ELSE Fail(m2, m2.thrown)

\* a loop over the triggers that goes on to the next trigger when one threw
AfterWalkIsolatesTriggers(m) ==
  IF m.mode = "await" THEN [m EXCEPT !.c.pc = "exec"]
  ELSE IF m.c.trig < Len(findTriggerNodes(m.e.wf)) THEN DispatchTrigger(m, m.c.trig + 1)
  ELSE IF m.mode = "threw" THEN Fail(m, m.thrown)
  ELSE Complete(m)

\* executeWorkflow resumed after the walk below a trigger has left off
AfterWalk(m) ==
  IF m.mode = "await" THEN [m EXCEPT !.c.pc = "exec"]
  ELSE IF m.mode = "threw" THEN Fail(m, m.thrown)
  ELSE IF m.c.trig < Len(findTriggerNodes(m.e.wf)) THEN DispatchTrigger(m, m.c.trig + 1)
  ELSE Complete(m)

\* lines 55-66
StartTriggers(m) ==
  IF Len(findTriggerNodes(m.e.wf)) = 0 THEN Fail(m, Err("no trigger", 0))
  ELSE DispatchTrigger(m, 1)

\* a loop that gives up on the first node it cannot construct and lets the
\* run go on with the nodes it has
initializeNodesGivesUp(m, k) ==
  LET ns == m.e.wf.nodes IN
  IF k > Len(ns) \/ ns[k].type \notin RegisteredTypes THEN StartTriggers(m)
  ELSE [m EXCEPT !.c.pc = "init", !.c.i = k]

\* initializeNodes from node k on, up to the await of initialize()
initializeNodes(m, k) ==
  LET ns == m.e.wf.nodes IN
  IF k > Len(ns) THEN StartTriggers(m)
  ELSE IF ns[k].type \notin RegisteredTypes THEN Fail(m, Err("init", ns[k].id))
  ELSE [m EXCEPT !.c.pc = "init", !.c.i = k]

\* executeWorkflow from its first line up to its first await
executeWorkflow(w) ==
  LET m == Machine(NewExecution(w), NewCall)
      validation == validateWorkflow(w)
  IN IF validation.raised THEN Fail(m, Err("type error", 0))
     ELSE IF ~validation.valid THEN Fail(m, Err("validation", 0))
     ELSE initializeNodes(m, 1)

\* the outcomes of a node's execute(): it throws, or it resolves with an
\* object populating any of the ports that a connection reads
WiredPorts(w, n) ==
  {c.sourcePort : c \in {w.connections[k] : k \in 1..Len(w.connections)} \cap
                        {x \in {w.connections[k] : k \in 1..Len(w.connections)} : x.source = n}}
Throws == [threw |-> TRUE, result |-> NoResult]
Resolves(result) == [threw |-> FALSE, result |-> result]
ExecuteOutcomes(w, n) ==
  {Throws} \cup {Resolves(ResultOf(n, S)) : S \in SUBSET WiredPorts(w, n)}
\* execute() resolves and populates every port
ExecuteSucceeds(w, n) == {Resolves(ResultOf(n, OutPorts))}

----------------------------------------------------------------------------
(* Actions *)

NotValidated == [done |-> FALSE, raised |-> FALSE, valid |-> FALSE, errors |-> <<>>, circular |-> FALSE]

Init ==
  /\ activeExecutions = {}
  /\ executionHistory = <<>>
  /\ exec = <<>>
  /\ call = <<>>
  /\ stop = <<>>
  /\ moved = 0
  /\ started = 0
  /\ vwf = WfChain
  /\ vres = NotValidated

Commit(r, m) ==
  /\ exec' = [exec EXCEPT ![r] = m.e]
  /\ call' = [call EXCEPT ![r] = m.c]
  /\ activeExecutions' = IF m.del THEN activeExecutions \ {r} ELSE activeExecutions

\* An execution object is local to its executeWorkflow call; the engine
\* refers to it from activeExecutions only.  Once the call has settled and no
\* stopExecution call still holds it, nothing refers to it.
InFlightStop(r) == \E k \in 1..Len(stop) : stop[k].id = r /\ stop[k].pc # "done"
Unreferenced(r) == call[r].pc = "settled" /\ r \notin activeExecutions /\ ~InFlightStop(r)
InUse == {r \in DOMAIN exec : ~Unreferenced(r)}

\* a caller invokes executeWorkflow(w): the execution is registered under a
\* fresh id and the call runs up to its first await; the execution objects
\* that nothing refers to any more are gone
ExecuteWorkflowCall(w, limit) ==
  /\ started < limit
  /\ LET r == started + 1
         m == executeWorkflow(w)
     IN /\ started' = r
        /\ exec' = [x \in InUse \cup {r} |-> IF x = r THEN m.e ELSE exec[x]]
        /\ call' = [x \in InUse \cup {r} |-> IF x = r THEN m.c ELSE call[x]]
        /\ activeExecutions' = IF m.del THEN activeExecutions \ {r}
                               ELSE activeExecutions \cup {r}
  /\ UNCHANGED <<executionHistory, stop, moved, vwf, vres>>

\* executeWorkflow(w, triggerData, options): the options are stored in the
\* execution object and the call goes on as without them
executeWorkflowWithOptions(w, options) ==
  [executeWorkflow(w) EXCEPT !.e.options = OptionsOf(options)]

ExecuteWorkflowCallWithOptions(w, options, limit) ==
  /\ started < limit
  /\ LET r == started + 1
         m == executeWorkflowWithOptions(w, options)
     IN /\ started' = r
        /\ exec' = [x \in InUse \cup {r} |-> IF x = r THEN m.e ELSE exec[x]]
        /\ call' = [x \in InUse \cup {r} |-> IF x = r THEN m.c ELSE call[x]]
        /\ activeExecutions' = IF m.del THEN activeExecutions \ {r}
                               ELSE activeExecutions \cup {r}
  /\ UNCHANGED <<executionHistory, stop, moved, vwf, vres>>

\* every executeWorkflow call made so far has settled
AllSettled == \A r \in DOMAIN call : call[r].pc = "settled"

\* the awaited initialize() of node i settles
InitializeSettles(r, oks) ==
  /\ call[r].pc = "init"
  /\ \E ok \in oks :
       LET m == Machine(exec[r], call[r])
           nodeData == exec[r].wf.nodes[call[r].i]
       IN IF ok
          THEN Commit(r, initializeNodes(
                 [m EXCEPT !.e.nodes = [n \in DOMAIN m.e.nodes \cup {nodeData.id} |->
                                          IF n = nodeData.id THEN NewNodeInfo ELSE m.e.nodes[n]],
                           !.e.order = Append(@, nodeData.id)],
                 call[r].i + 1))
          ELSE Commit(r, Fail(m, Err("init", nodeData.id)))
  /\ UNCHANGED <<executionHistory, stop, moved, started, vwf, vres>>

\* the awaited execute() of the node on top of the stack settles
ExecuteSettles(r, succeedsOnly) ==
  /\ call[r].pc = "exec"
  /\ LET m == Machine(exec[r], call[r])
         n == Top(call[r].stack).nodeId
     IN \E o \in IF succeedsOnly THEN ExecuteSucceeds(exec[r].wf, n)
                 ELSE ExecuteOutcomes(exec[r].wf, n) :
          Commit(r, AfterWalk(IF o.threw THEN NodeFailed(m) ELSE NodeCompleted(m, o.result)))
  /\ UNCHANGED <<executionHistory, stop, moved, started, vwf, vres>>

\* the cleanup() hook awaited by the finally block settles, resolving or
\* rejecting
CleanupSettles(r, oks) ==
  /\ call[r].pc = "cleanup"
  /\ \E ok \in oks :
     LET s == cleanupHookSettled(exec[r], call[r].i, ok) IN
       /\ exec' = [exec EXCEPT ![r] = s.e]
       /\ call' = [call EXCEPT ![r] = [@ EXCEPT !.i = s.i,
                                                !.pc = IF s.done THEN "move" ELSE "cleanup"]]
       /\ activeExecutions' = IF s.done THEN activeExecutions \ {r} ELSE activeExecutions
  /\ UNCHANGED <<executionHistory, stop, moved, started, vwf, vres>>

\* the finally block resumes after cleanupExecution: moveToHistory, and the
\* call settles (returns the result or rethrows)
FinallyMoves(r) ==
  /\ call[r].pc = "move"
  /\ executionHistory' = moveToHistory(executionHistory, exec[r], r, moved + 1)
  /\ moved' = moved + 1
  /\ call' = [call EXCEPT ![r] = [@ EXCEPT !.pc = "settled",
                                           !.outcome = IF call[r].pending = "return"
                                                       THEN "returned" ELSE "threw"]]
  /\ UNCHANGED <<activeExecutions, exec, stop, started, vwf, vres>>

\* a caller invokes stopExecution(id); the call runs up to its first await
StopExecutionCall(id) ==
  /\ Len(stop) < MaxStops
  /\ IF id \notin activeExecutions
     THEN /\ stop' = Append(stop, [id |-> id, pc |-> "done", i |-> 0, ret |-> "false"])
          /\ UNCHANGED <<activeExecutions, exec>>
     ELSE LET e1 == [exec[id] EXCEPT !.status = "stopped", !.endTime = TRUE]
              s == cleanupExecution(e1, 0)
          IN /\ exec' = [exec EXCEPT ![id] = s.e]
             /\ activeExecutions' = IF s.done THEN activeExecutions \ {id}
                                    ELSE activeExecutions
             /\ stop' = Append(stop, [id |-> id, pc |-> IF s.done THEN "move" ELSE "cleanup",
                                      i |-> s.i, ret |-> "none"])
  /\ UNCHANGED <<executionHistory, call, moved, started, vwf, vres>>

\* the cleanup() hook awaited by a stopExecution call settles
StopCleanupSettles(k) ==
  /\ stop[k].pc = "cleanup"
  /\ LET id == stop[k].id
         s == cleanupExecution(exec[id], stop[k].i)
     IN /\ exec' = [exec EXCEPT ![id] = s.e]
        /\ stop' = [stop EXCEPT ![k] = [@ EXCEPT !.i = s.i,
                                                 !.pc = IF s.done THEN "move" ELSE "cleanup"]]
        /\ activeExecutions' = IF s.done THEN activeExecutions \ {id} ELSE activeExecutions
  /\ UNCHANGED <<executionHistory, call, moved, started, vwf, vres>>

\* stopExecution resumes after cleanupExecution: moveToHistory, return true
StopMoves(k) ==
  /\ stop[k].pc = "move"
  /\ executionHistory' = moveToHistory(executionHistory, exec[stop[k].id], stop[k].id, moved + 1)
  /\ moved' = moved + 1
  /\ stop' = [stop EXCEPT ![k] = [@ EXCEPT !.pc = "done", !.ret = "true"]]
  /\ UNCHANGED <<activeExecutions, exec, call, started, vwf, vres>>

\* the workflows of the runs that stopExecution calls interleave with
Workflows == {WfChain, WfNoTrigger, WfEmpty, WfUnknownType}

\* the workflows of the runs that are walked on their own
WalkWorkflows ==
  {WfChain, WfFanOut, WfBranch, WfTwoPorts, WfSamePort, WfDiamond, WfTwoTriggers, WfThreeTriggers,
   WfNoTrigger, WfEmpty, WfCycle, WfSelfLoop, WfSelfTrigger, WfDangling, WfNoNodes,
   WfNoConnections, WfUnknownType}

\* the caller awaits each executeWorkflow call before it makes the next
ExecuteWorkflow == AllSettled /\ \E w \in Workflows : ExecuteWorkflowCall(w, MaxRuns)
InitializeReturns == \E r \in DOMAIN call : InitializeSettles(r, BOOLEAN)
ExecuteReturns == \E r \in DOMAIN call : ExecuteSettles(r, FALSE)
CleanupReturns == \E r \in DOMAIN call : CleanupSettles(r, {TRUE})
FinallyMoveToHistory == \E r \in DOMAIN call : FinallyMoves(r)
StopExecution == \E id \in 1..MaxRuns : StopExecutionCall(id)
StopCleanupReturns == \E k \in 1..Len(stop) : StopCleanupSettles(k)
StopMoveToHistory == \E k \in 1..Len(stop) : StopMoves(k)
\* every hook resolves, and execute() populates every port
InitializeSucceeds == \E r \in DOMAIN call : InitializeSettles(r, {TRUE})
ExecuteSucceedsAlways == \E r \in DOMAIN call : ExecuteSettles(r, TRUE)

Next ==
  \/ ExecuteWorkflow
  \/ InitializeReturns
  \/ ExecuteReturns
  \/ CleanupReturns
  \/ FinallyMoveToHistory
  \/ StopExecution
  \/ StopCleanupReturns
  \/ StopMoveToHistory

Spec == Init /\ [][Next]_vars

----------------------------------------------------------------------------
(* Runs walked on their own, without stopExecution *)

ExecuteWorkflowAlone == AllSettled /\ \E w \in WalkWorkflows : ExecuteWorkflowCall(w, MaxRuns)

NextWalk ==
  \/ ExecuteWorkflowAlone
  \/ InitializeReturns
  \/ ExecuteReturns
  \/ CleanupReturns
  \/ FinallyMoveToHistory

SpecWalk == Init /\ [][NextWalk]_vars

----------------------------------------------------------------------------
(* Runs walked on their own while time passes: at any moment at which a run
   awaits a hook of a node, the time elapsed since its startTime may come to
   exceed its options.timeout *)

TimeoutElapses(r) ==
  /\ call[r].pc \in {"init", "exec"}
  /\ ~exec[r].overdue
  /\ exec' = [exec EXCEPT ![r].overdue = TRUE]
  /\ UNCHANGED <<activeExecutions, executionHistory, call, stop, moved, started, vwf, vres>>

TimePasses == \E r \in DOMAIN call : TimeoutElapses(r)

NextTimeout ==
  \/ ExecuteWorkflowAlone
  \/ InitializeReturns
  \/ ExecuteReturns
  \/ CleanupReturns
  \/ FinallyMoveToHistory
  \/ TimePasses

SpecTimeout == Init /\ [][NextTimeout]_vars

----------------------------------------------------------------------------
(* Several executeWorkflow calls in flight at the same time, none awaited
   before the next is made; while its execute() is awaited a node calls
   context.setVariable any number of times *)

ExecuteWorkflowConcurrently == ExecuteWorkflowCall(WfChain, MaxConcurrent)

NodeSetsVariable(r) ==
  /\ call[r].pc = "exec"
  /\ \E name \in VarNames, value \in VarValues :
       /\ getVariable(exec, r, name) # value
       /\ exec' = setVariable(exec, r, name, value)
  /\ UNCHANGED <<activeExecutions, executionHistory, call, stop, moved, started, vwf, vres>>

SetVariable == \E r \in DOMAIN call : NodeSetsVariable(r)

NextVariables ==
  \/ ExecuteWorkflowConcurrently
  \/ InitializeSucceeds
  \/ ExecuteSucceedsAlways
  \/ CleanupReturns
  \/ FinallyMoveToHistory
  \/ SetVariable

SpecVariables == Init /\ [][NextVariables]_vars

----------------------------------------------------------------------------
(* Chains trigger -> N1 -> ... -> Nk of every length up to MaxChain, each
   connection wired to either output port, walked one after the other with
   every hook free to resolve or to reject *)

LinearChain(k, ports) ==
  Workflow([i \in 1..(k + 1) |-> Node(i, IF i = 1 THEN "trigger" ELSE "action")],
           [i \in 1..k |-> Conn(i, ports[i], i + 1, "input")])

ExecuteWorkflowChain ==
  /\ AllSettled
  /\ \E k \in 0..MaxChain : \E ports \in [1..k -> OutPorts] :
       ExecuteWorkflowCall(LinearChain(k, ports), MaxRuns)

NextChain ==
  \/ ExecuteWorkflowChain
  \/ InitializeReturns
  \/ ExecuteReturns
  \/ CleanupReturns
  \/ FinallyMoveToHistory

SpecChain == Init /\ [][NextChain]_vars

----------------------------------------------------------------------------
(* Runs started with options that set the cap, or with none, on workflows in
   which several paths lead to one node *)

CapOptions == {[maxNodes |-> c] : c \in 0..2}

ExecuteWorkflowConfigured ==
  /\ AllSettled
  /\ \E w \in {WfChain, WfDiamond, WfThreeTriggers}, options \in CapOptions :
       ExecuteWorkflowCallWithOptions(w, options, MaxRuns)

NextOptions ==
  \/ ExecuteWorkflowConfigured
  \/ InitializeReturns
  \/ ExecuteReturns
  \/ CleanupReturns
  \/ FinallyMoveToHistory

SpecOptions == Init /\ [][NextOptions]_vars

----------------------------------------------------------------------------
(* Runs walked on their own, every hook free to resolve or to reject, the
   cleanup() hooks included *)

CleanupReturnsOrThrows == \E r \in DOMAIN call : CleanupSettles(r, BOOLEAN)

ExecuteWorkflowTeardown ==
  /\ AllSettled
  /\ \E w \in {WfChain, WfFanOut, WfNoTrigger, WfUnknownType, WfEmpty} :
       ExecuteWorkflowCall(w, MaxRuns)

NextTeardown ==
  \/ ExecuteWorkflowTeardown
  \/ InitializeReturns
  \/ ExecuteReturns
  \/ CleanupReturnsOrThrows
  \/ FinallyMoveToHistory

SpecTeardown == Init /\ [][NextTeardown]_vars

----------------------------------------------------------------------------
(* A run that reaches the execution cap: trigger 1 feeds CapFanFirst nodes,
   all of which feed one node, which feeds CapFanSecond nodes, all of which
   feed the last node; every execute() succeeds and populates its ports *)

CapMiddle == CapFanFirst + 2
CapLast == CapFanFirst + CapFanSecond + 3
WfCap ==
  Workflow([i \in 1..CapLast |-> Node(i, IF i = 1 THEN "trigger" ELSE "action")],
           [i \in 1..CapFanFirst |-> Conn(1, "true", i + 1, "input")]
           \o [i \in 1..CapFanFirst |-> Conn(i + 1, "true", CapMiddle, "input")]
           \o [i \in 1..CapFanSecond |-> Conn(CapMiddle, "true", CapMiddle + i, "input")]
           \o [i \in 1..CapFanSecond |-> Conn(CapMiddle + i, "true", CapLast, "input")])

ExecuteWorkflowCap == ExecuteWorkflowCall(WfCap, 1)

NextCap ==
  \/ ExecuteWorkflowCap
  \/ InitializeSucceeds
  \/ ExecuteSucceedsAlways
  \/ CleanupReturns
  \/ FinallyMoveToHistory

SpecCap == Init /\ [][NextCap]_vars

----------------------------------------------------------------------------
(* Runs walked on their own, the run that reaches the cap among them; each
   step is the return or the rejection of the hook that a call awaits *)

ExecuteWorkflowAny ==
  /\ AllSettled
  /\ \E w \in WalkWorkflows \cup {WfCap} : ExecuteWorkflowCall(w, MaxRuns)

\* in the run that reaches the cap every execute() populates its ports
ExecuteReturnsInTime == \E r \in DOMAIN call : ExecuteSettles(r, exec[r].wf = WfCap)

NextTermination ==
  \/ ExecuteWorkflowAny
  \/ InitializeReturns
  \/ ExecuteReturnsInTime
  \/ CleanupReturns
  \/ FinallyMoveToHistory

SpecTermination == Init /\ [][NextTermination]_vars

----------------------------------------------------------------------------
(* More runs than the history holds, one after the other: every hundredth
   one, from the first on, runs the chain to completion, the others fail
   validation *)

HistoryRuns == maxHistorySize + HistExtra

ExecuteWorkflowInTurn ==
  /\ AllSettled
  /\ ExecuteWorkflowCall(IF started % 100 = 0 THEN WfChain ELSE WfEmpty, HistoryRuns)

NextHistory ==
  \/ ExecuteWorkflowInTurn
  \/ InitializeSucceeds
  \/ ExecuteSucceedsAlways
  \/ CleanupReturns
  \/ FinallyMoveToHistory

SpecHistory == Init /\ [][NextHistory]_vars

----------------------------------------------------------------------------
(* validateWorkflow on its own, over every workflow of up to MaxGraphNodes
   nodes and MaxGraphConns connections and over the named workflows *)

Edge(s, t) == Conn(s, "true", t, "input")
GraphNodes(n) == [i \in 1..n |-> Node(i, IF i = 1 THEN "trigger" ELSE "action")]
\* the workflows of n nodes and k connections among the ids 1..n+1, the
\* last of which is the id of no node
GraphsOver(n, k) ==
  {Workflow(GraphNodes(n), cs) : cs \in [1..k -> {Edge(x, y) : x \in 1..(n + 1), y \in 1..(n + 1)}]}

\* a three-node cycle apart from the first node
WfCycleApart == Workflow(<<Node(1, "trigger"), Node(2, "action"), Node(3, "action"), Node(4, "action")>>,
                         <<Edge(2, 3), Edge(3, 4), Edge(4, 2)>>)
\* a cycle through an id that is no node
WfCycleDangling == Workflow(<<Node(1, "trigger"), Node(2, "action")>>, <<Edge(1, 9), Edge(9, 1)>>)
WfDanglingSource == Workflow(<<Node(1, "trigger")>>, <<Edge(9, 1)>>)

ValidationInputs == WalkWorkflows \cup {WfCycleApart, WfCycleDangling, WfDanglingSource}

InitValidate ==
  /\ activeExecutions = {}
  /\ executionHistory = <<>>
  /\ exec = <<>>
  /\ call = <<>>
  /\ stop = <<>>
  /\ moved = 0
  /\ started = 0
  /\ \/ vwf \in ValidationInputs
     \/ \E n \in 0..MaxGraphNodes, k \in 0..MaxGraphConns : vwf \in GraphsOver(n, k)
  /\ vres = NotValidated

\* validateWorkflow(vwf) is called; circular is what hasCircularDependencies
\* returned inside it
Validate ==
  /\ ~vres.done
  /\ LET v == validateWorkflow(vwf) IN
       vres' = [done |-> TRUE, raised |-> v.raised, valid |-> v.valid, errors |-> v.errors,
                circular |-> IF v.raised THEN FALSE ELSE hasCircularDependencies(vwf)]
  /\ UNCHANGED <<activeExecutions, executionHistory, exec, call, stop, moved, started, vwf>>

NextValidate == Validate

SpecValidate == InitValidate /\ [][NextValidate]_vars

----------------------------------------------------------------------------
(* Properties *)

Runs == DOMAIN exec
Terminal == {"completed", "failed", "stopped"}

\* C1: once the status of a run has left 'running', no node of the run is
\* dispatched any more: no execute() is invoked and no executions counter is
\* incremented in any later step.
NoDispatchAfterRunEnded ==
  [][\A r \in Runs \cap DOMAIN exec' :
       exec[r].status # "running" =>
         \A n \in DOMAIN exec'[r].nodes :
           /\ exec'[r].nodes[n].invocations =
                IF n \in DOMAIN exec[r].nodes THEN exec[r].nodes[n].invocations ELSE 0
           /\ exec'[r].nodes[n].executions =
                IF n \in DOMAIN exec[r].nodes THEN exec[r].nodes[n].executions ELSE 0]_vars

\* C2: the status of a run moves from 'running' to one of 'completed',
\* 'failed', 'stopped' only, and a terminal status never changes again.
StatusIsFinal ==
  [][\A r \in Runs \cap DOMAIN exec' :
       /\ exec[r].status \in Terminal => exec'[r].status = exec[r].status
       /\ exec[r].status = "running" => exec'[r].status \in Terminal \cup {"running"}]_vars

----------------------------------------------------------------------------
\* The fan-outs recorded in a run: the loops of executeConnectedNodes that
\* are over (complete) and those that are waiting for a dispatched target.
FanOutsOf(r) ==
  {[node |-> n, result |-> exec[r].nodes[n].ret.result,
    calls |-> exec[r].nodes[n].ret.calls,
    connectedResults |-> exec[r].nodes[n].ret.connectedResults, complete |-> TRUE] :
     n \in {x \in DOMAIN exec[r].nodes : exec[r].nodes[x].ret.returned}}
  \cup
  {[node |-> call[r].stack[d].nodeId, result |-> call[r].stack[d].result,
    calls |-> call[r].stack[d].calls,
    connectedResults |-> call[r].stack[d].connectedResults, complete |-> FALSE] :
     d \in 1..(Len(call[r].stack) - 1)}

\* the connections s -> t of w, by index, and whether connection i reads a
\* populated port of result R
ConnsBetween(w, s, t) ==
  {i \in 1..Len(w.connections) : w.connections[i].source = s /\ w.connections[i].target = t}
ReadsDefined(w, R, i) == R # NoResult /\ R[w.connections[i].sourcePort] # Undefined
TargetsOf(w, s) == {w.connections[i].target : i \in {j \in 1..Len(w.connections) : w.connections[j].source = s}}
TimesDispatched(calls, t) == Cardinality({k \in 1..Len(calls) : calls[k].target = t})
TriggerIds(w) == {w.nodes[i].id : i \in {j \in 1..Len(w.nodes) : w.nodes[j].type = "trigger"}}
Greatest(S) == CHOOSE x \in S : \A y \in S : y <= x

\* C3: at a fan-out, a target whose execute() throws does not keep the other
\* targets from being dispatched: in every fan-out that is over, each target
\* reading a populated port was dispatched, each target that returned is in
\* connectedResults, each target that threw has an entry in the run's
\* errors; the parent's dispatch returned; and the run fails on a node's
\* error only if that node is a trigger, otherwise it returns 'completed'.
SiblingIsolation ==
  \A r \in Runs :
    /\ \A fo \in FanOutsOf(r) :
         LET w == exec[r].wf IN
         /\ fo.complete =>
              \A t \in TargetsOf(w, fo.node) :
                (\E i \in ConnsBetween(w, fo.node, t) : ReadsDefined(w, fo.result, i))
                  => TimesDispatched(fo.calls, t) = 1
         /\ \A k \in 1..Len(fo.calls) :
              /\ fo.calls[k].outcome = "ok" =>
                   \E j \in 1..Len(fo.connectedResults) :
                     fo.connectedResults[j].nodeId = fo.calls[k].target
              /\ fo.calls[k].outcome = "exec" =>
                   \E j \in 1..Len(exec[r].errors) :
                     exec[r].errors[j].nodeId = fo.calls[k].target
    /\ exec[r].error.kind = "exec"
         => exec[r].error.node \in TriggerIds(exec[r].wf)
    /\ call[r].outcome = "returned" => exec[r].status = "completed"

\* a fan-out is over in which one target threw and a later one returned,
\* and the run has returned a result
SiblingIsolationWitness ==
  \E r \in Runs :
    /\ call[r].outcome = "returned"
    /\ call[r].result.status = "completed"
    /\ \E fo \in FanOutsOf(r) :
         /\ fo.complete
         /\ \E i, j \in 1..Len(fo.calls) :
              /\ i < j
              /\ fo.calls[i].outcome = "exec"
              /\ fo.calls[j].outcome = "ok"
              /\ \E k \in 1..Len(fo.connectedResults) :
                   fo.connectedResults[k].nodeId = fo.calls[j].target
              /\ \E k \in 1..Len(exec[r].errors) :
                   exec[r].errors[k].nodeId = fo.calls[i].target

\* how often each target of a fan-out is dispatched
DispatchedOncePerTarget(r, fo) ==
  LET w == exec[r].wf IN
  /\ \A k \in 1..Len(fo.calls) : fo.calls[k].target \in TargetsOf(w, fo.node)
  /\ \A t \in TargetsOf(w, fo.node) :
       LET due == IF \E i \in ConnsBetween(w, fo.node, t) : ReadsDefined(w, fo.result, i)
                  THEN 1 ELSE 0
       IN /\ TimesDispatched(fo.calls, t) <= due
          /\ fo.complete => TimesDispatched(fo.calls, t) = due

\* C4 as amended: each distinct target is dispatched once if a connection to
\* it reads a populated port and not at all otherwise, and the input map it
\* is given holds, for each target port, the value read by the last
\* connection to that port whose source port is populated, and nothing for
\* a port without such a connection.
BranchSuppressionLastWins ==
  \A r \in Runs : \A fo \in FanOutsOf(r) :
    LET w == exec[r].wf IN
    /\ DispatchedOncePerTarget(r, fo)
    /\ \A k \in 1..Len(fo.calls) : \A tp \in InPorts :
         LET into == {i \in ConnsBetween(w, fo.node, fo.calls[k].target) :
                        ReadsDefined(w, fo.result, i) /\ w.connections[i].targetPort = tp}
         IN fo.calls[k].inputData[tp] =
              IF into = {} THEN Undefined
              ELSE fo.result[w.connections[Greatest(into)].sourcePort]

\* C4: each distinct target is dispatched once if a connection to it reads a
\* populated port and not at all otherwise, and the input map it is given
\* holds targetPort -> R[sourcePort] for exactly the connections whose source
\* port is populated.
BranchSuppressionEveryConnection ==
  \A r \in Runs : \A fo \in FanOutsOf(r) :
    LET w == exec[r].wf IN
    /\ DispatchedOncePerTarget(r, fo)
    /\ \A k \in 1..Len(fo.calls) :
         LET into == {i \in ConnsBetween(w, fo.node, fo.calls[k].target) :
                        ReadsDefined(w, fo.result, i)}
             inputData == fo.calls[k].inputData
         IN /\ \A i \in into :
                 inputData[w.connections[i].targetPort] = fo.result[w.connections[i].sourcePort]
            /\ \A tp \in InPorts :
                 inputData[tp] # Undefined =>
                   \E i \in into : w.connections[i].targetPort = tp

\* a node that populated both ports has dispatched a target wired to both of
\* them, and a node that populated one port only has left a target out
BranchSuppressionWitness ==
  /\ \E r \in Runs : \E fo \in FanOutsOf(r) :
       /\ fo.complete
       /\ Len(fo.calls) = 1
       /\ Cardinality(ConnsBetween(exec[r].wf, fo.node, fo.calls[1].target)) = 2
       /\ \A i \in ConnsBetween(exec[r].wf, fo.node, fo.calls[1].target) :
            ReadsDefined(exec[r].wf, fo.result, i)
       /\ \A i, j \in ConnsBetween(exec[r].wf, fo.node, fo.calls[1].target) :
            exec[r].wf.connections[i].targetPort = exec[r].wf.connections[j].targetPort

\* C5: no executions counter exceeds the cap of 100, execute() is invoked
\* once per counted execution, and a dispatch is rejected with the
\* limit error exactly for a node whose counter is at the cap.
ExecutionCap ==
  \A r \in Runs :
    /\ \A n \in DOMAIN exec[r].nodes :
         /\ exec[r].nodes[n].executions <= maxExecutions
         /\ exec[r].nodes[n].invocations = exec[r].nodes[n].executions
    /\ \A fo \in FanOutsOf(r) : \A k \in 1..Len(fo.calls) :
         fo.calls[k].outcome = "limit" =>
           exec[r].nodes[fo.calls[k].target].executions = maxExecutions

\* a dispatch of a node at the cap was rejected
ExecutionCapWitness ==
  \E r \in Runs : \E fo \in FanOutsOf(r) : \E k \in 1..Len(fo.calls) :
    /\ fo.calls[k].outcome = "limit"
    /\ exec[r].nodes[fo.calls[k].target].executions = maxExecutions
    /\ exec[r].nodes[fo.calls[k].target].invocations = maxExecutions

\* C6: when an executeWorkflow call has settled, cleanup() was invoked on
\* every node instance of the run, the run is not in activeExecutions, and the
\* history holds a record with the run's id, its status and a stamped endTime.
SettledRunIsFinalized ==
  \A r \in Runs :
    call[r].pc = "settled" =>
      /\ r \notin activeExecutions
      /\ \A n \in DOMAIN exec[r].nodes : exec[r].nodes[n].cleanups >= 1
      /\ exec[r].endTime
      /\ \E k \in 1..Len(executionHistory) :
           /\ executionHistory[k].id = r
           /\ executionHistory[k].status = exec[r].status
           /\ executionHistory[k].endTime

\* a call has thrown after an external stop, with two nodes initialized
SettledRunWitness ==
  \E r \in Runs :
    /\ call[r].pc = "settled"
    /\ call[r].outcome = "threw"
    /\ Len(exec[r].order) = 2
    /\ \E k \in 1..Len(stop) : stop[k].id = r /\ stop[k].ret = "true"

\* C7: stopExecution on an id that is not active returns false and changes
\* neither activeExecutions nor the history; for one run at most one call
\* returns true, and when a call has returned true the history holds a
\* record of the run with status 'stopped'.
StopIsIdempotent ==
  [][/\ (Len(stop') > Len(stop) /\ stop'[Len(stop')].ret = "false")
          => /\ activeExecutions' = activeExecutions
             /\ executionHistory' = executionHistory
     /\ \A id \in Runs :
          Cardinality({k \in 1..Len(stop') : stop'[k].id = id /\ stop'[k].ret = "true"}) <= 1
     /\ \A k \in 1..Len(stop') :
          stop'[k].ret = "true" =>
            \E j \in 1..Len(executionHistory') :
              /\ executionHistory'[j].id = stop'[k].id
              /\ executionHistory'[j].status = "stopped"]_vars

\* C8: the history holds at most one record per execution id.
OneRecordPerId ==
  \A i, j \in 1..Len(executionHistory) :
    i # j => executionHistory[i].id # executionHistory[j].id

\* C9: the history never holds more than maxHistorySize records; it holds
\* the most recently moved records, newest first; once more records than the
\* capacity were moved, getExecutionHistory(capacity) returns capacity
\* records and none of the older ones.
HistoryBounded ==
  /\ Len(executionHistory) <= maxHistorySize
  /\ \A i \in 1..Len(executionHistory) : executionHistory[i].seq = moved - i + 1
  /\ moved <= maxHistorySize => Len(executionHistory) = moved
  /\ moved > maxHistorySize =>
       LET got == getExecutionHistory(maxHistorySize) IN
       /\ Len(got) = maxHistorySize
       /\ \A i \in 1..Len(got) : got[i].seq > moved - maxHistorySize
       /\ got[1].seq = moved

\* more records were moved than the history holds
HistoryBoundedWitness ==
  /\ moved > maxHistorySize
  /\ Len(executionHistory) = maxHistorySize

\* the edges of the graph induced by the connections, and whether it has a
\* cycle: some node reaches itself along one or more edges
Edges(w) == {<<w.connections[i].source, w.connections[i].target>> : i \in 1..Len(w.connections)}
RECURSIVE ReachableFrom(_, _)
ReachableFrom(E, S) ==
  LET next == S \cup {e[2] : e \in {x \in E : x[1] \in S}} IN
  IF next = S THEN S ELSE ReachableFrom(E, next)
HasDirectedCycle(w) ==
  \E e \in Edges(w) : e[1] \in ReachableFrom(Edges(w), {e[2]})

\* C10: hasCircularDependencies returns true exactly when the directed graph
\* induced by the connections contains a cycle.
CycleDetectionExact ==
  (vres.done /\ ~vres.raised) => (vres.circular <=> HasDirectedCycle(vwf))

\* a cycle lying apart from the first node was reported and the workflow
\* was rejected
CycleDetectionWitness ==
  /\ vres.done
  /\ vwf = WfCycleApart
  /\ vres.circular
  /\ ~vres.valid

\* how many errors of kind k naming id x validateWorkflow reported, and how
\* many connections of w have x at the end that f selects
ErrorsNaming(errors, k, x) ==
  Cardinality({i \in 1..Len(errors) : errors[i].kind = k /\ errors[i].node = x})
ConnsWithSource(w, x) == Cardinality({i \in 1..Len(w.connections) : w.connections[i].source = x})
ConnsWithTarget(w, x) == Cardinality({i \in 1..Len(w.connections) : w.connections[i].target = x})
EndIds(w) ==
  {w.connections[i].source : i \in 1..Len(w.connections)}
  \cup {w.connections[i].target : i \in 1..Len(w.connections)}

\* C11: for a workflow with nodes and connections arrays, validateWorkflow
\* reports one error naming the id for every connection whose source is no
\* node id and one for every connection whose target is no node id, the
\* empty-node-set error exactly when there is no node and the circular error
\* exactly when the connections hold a cycle, and nothing else; it answers
\* valid exactly when there is no such violation.
ValidationReportsEverything ==
  (vres.done /\ vwf.hasNodes /\ vwf.hasConnections) =>
    /\ ~vres.raised
    /\ \A x \in EndIds(vwf) :
         /\ ErrorsNaming(vres.errors, "unknown source", x) =
              IF x \in NodeIds(vwf) THEN 0 ELSE ConnsWithSource(vwf, x)
         /\ ErrorsNaming(vres.errors, "unknown target", x) =
              IF x \in NodeIds(vwf) THEN 0 ELSE ConnsWithTarget(vwf, x)
    /\ ErrorsNaming(vres.errors, "no nodes", 0) = IF Len(vwf.nodes) = 0 THEN 1 ELSE 0
    /\ ErrorsNaming(vres.errors, "circular", 0) = IF HasDirectedCycle(vwf) THEN 1 ELSE 0
    /\ \A i \in 1..Len(vres.errors) :
         \/ vres.errors[i].kind \in {"unknown source", "unknown target"}
            /\ vres.errors[i].node \in EndIds(vwf)
         \/ vres.errors[i].kind \in {"no nodes", "circular"} /\ vres.errors[i].node = 0
    /\ vres.valid <=> /\ Len(vwf.nodes) > 0
                      /\ EndIds(vwf) \subseteq NodeIds(vwf)
                      /\ ~HasDirectedCycle(vwf)

\* a workflow without nodes whose two connections run both ways between
\* ids of no node was given four reference errors, the empty-node-set error
\* and the circular error
ValidationReportsEverythingWitness ==
  /\ vres.done
  /\ Len(vwf.nodes) = 0
  /\ Len(vwf.connections) = 2
  /\ HasDirectedCycle(vwf)
  /\ Len(vres.errors) = 6
  /\ ~vres.valid

\* C12: validateWorkflow never raises: for every workflow definition it
\* returns a {valid, errors} value.
ValidateNeverRaises == vres.done => ~vres.raised

\* a workflow definition that validation is to reject
FailsValidation(w) ==
  \/ ~w.hasNodes
  \/ ~w.hasConnections
  \/ Len(w.nodes) = 0
  \/ ~(EndIds(w) \subseteq NodeIds(w))
  \/ HasDirectedCycle(w)

\* C13: a run whose workflow fails validation never partially executes: no
\* node is constructed, initialized or dispatched; the run's status becomes
\* 'failed' and executeWorkflow throws the error that lists the validation
\* errors.
ValidationFailureAborts ==
  \A r \in Runs :
    FailsValidation(exec[r].wf) =>
      /\ call[r].pc \notin {"init", "exec"}
      /\ DOMAIN exec[r].nodes = {}
      /\ call[r].stack = <<>>
      /\ exec[r].status = "failed"
      /\ exec[r].error.kind = "validation"
      /\ call[r].pc = "settled" => call[r].outcome = "threw"

\* the run has left initializeNodes with fewer nodes registered than the
\* workflow has: constructing or initializing the next one threw
InitFailed(r) ==
  /\ ~FailsValidation(exec[r].wf)
  /\ call[r].pc \in {"cleanup", "move", "settled"}
  /\ Len(exec[r].order) < Len(exec[r].wf.nodes)

\* C14: when constructing or initializing the k-th node throws, no later
\* node is registered, no execute() is ever invoked and every executions
\* counter stays 0, the run is 'failed' with the error naming the k-th node,
\* and once the call has settled it has thrown, the nodes initialized before
\* the k-th were cleaned up and the run is not in activeExecutions.
InitializationFailsFast ==
  \A r \in Runs :
    InitFailed(r) =>
      LET e == exec[r]
          k == Len(e.order) + 1
      IN /\ e.order = [i \in 1..(k - 1) |-> e.wf.nodes[i].id]
         /\ DOMAIN e.nodes = {e.wf.nodes[i].id : i \in 1..(k - 1)}
         /\ \A n \in DOMAIN e.nodes :
              e.nodes[n].executions = 0 /\ e.nodes[n].invocations = 0
         /\ call[r].stack = <<>>
         /\ e.status = "failed"
         /\ e.error = Err("init", e.wf.nodes[k].id)
         /\ call[r].pc = "settled" =>
              /\ call[r].outcome = "threw"
              /\ \A n \in DOMAIN e.nodes : e.nodes[n].cleanups = 1
              /\ r \notin activeExecutions

\* the call has settled after the second node failed to initialize, the
\* first one cleaned up
InitializationFailsFastWitness ==
  \E r \in Runs :
    /\ InitFailed(r)
    /\ call[r].pc = "settled"
    /\ exec[r].order = <<1>>
    /\ exec[r].nodes[1].cleanups = 1
    /\ exec[r].error = Err("init", 2)

\* the ids of the trigger nodes of w, in definition order; no connection of
\* the catalogue leads into a trigger, so a trigger is dispatched by the
\* loop of executeWorkflow only
TriggersOf(w) ==
  LET ts == SelectSeq(w.nodes, LAMBDA n : n.type = "trigger") IN [i \in 1..Len(ts) |-> ts[i].id]

\* C15: the triggers are walked one after the other in definition order:
\* while trigger j is walked (it or a node below it is executing) every
\* earlier trigger's executeFromNode call has returned and no later trigger
\* was dispatched; when the dispatch of trigger j threw, no later trigger is
\* ever dispatched, the run is 'failed' with the trigger's error, and the
\* call throws.
TriggersInSequence ==
  \A r \in Runs :
    LET e == exec[r]
        ts == TriggersOf(e.wf)
    IN ~FailsValidation(e.wf) =>
         \A j \in 1..Len(ts) :
           /\ (ts[j] \in DOMAIN e.nodes /\ e.nodes[ts[j]].invocations > 0) =>
                /\ e.nodes[ts[j]].invocations = 1
                /\ \A i \in 1..(j - 1) : e.nodes[ts[i]].ret.returned
           /\ (call[r].stack # <<>> /\ call[r].stack[1].nodeId = ts[j]) =>
                /\ \A i \in 1..(j - 1) : e.nodes[ts[i]].ret.returned
                /\ \A i \in (j + 1)..Len(ts) : e.nodes[ts[i]].invocations = 0
           /\ (ts[j] \in DOMAIN e.nodes /\ e.nodes[ts[j]].status = "failed") =>
                /\ \A i \in (j + 1)..Len(ts) : e.nodes[ts[i]].invocations = 0
                /\ call[r].stack = <<>>
                /\ e.status = "failed"
                /\ e.error = Err("exec", ts[j])
                /\ call[r].pc = "settled" => call[r].outcome = "threw"

\* of three triggers the first one's walk, with its downstream node, has
\* returned, the second one threw, and the call has settled
TriggersInSequenceWitness ==
  \E r \in Runs :
    LET ts == TriggersOf(exec[r].wf) IN
    /\ Len(ts) = 3
    /\ DOMAIN exec[r].nodes = NodeIds(exec[r].wf)
    /\ call[r].pc = "settled"
    /\ exec[r].nodes[ts[1]].ret.returned
    /\ Len(exec[r].nodes[ts[1]].ret.connectedResults) = 1
    /\ exec[r].nodes[ts[2]].status = "failed"
    /\ exec[r].nodes[ts[3]].invocations = 0

\* the sources of the connections of w into port p of node n
SourcesIntoPort(w, n, p) ==
  {w.connections[i].source : i \in {k \in 1..Len(w.connections) :
                                      w.connections[k].target = n /\ w.connections[k].targetPort = p}}

\* C16: when two upstream nodes are connected to the same input port of a
\* node, a dispatch of the node sees on that port the value of the branch
\* that triggered it: while the node's execute() runs, getInputData(port)
\* returns the value its dispatching node passed for the port.
FanInSeesTriggeringBranch ==
  \A r \in Runs :
    (call[r].pc = "exec" /\ Len(call[r].stack) >= 2) =>
      LET d == Len(call[r].stack)
          f == call[r].stack[d]
          parent == call[r].stack[d - 1].nodeId
      IN \A p \in InPorts :
           (/\ Cardinality(SourcesIntoPort(exec[r].wf, f.nodeId, p)) >= 2
            /\ parent \in SourcesIntoPort(exec[r].wf, f.nodeId, p)
            /\ f.inputData[p] # Undefined)
             => getInputData(exec[r], f.nodeId, f.inputData, p) = PortValue(f.inputData[p])

\* node n completed and populated the port that its connections read
Populated(e, n) ==
  /\ n \in DOMAIN e.nodes
  /\ e.nodes[n].status = "completed"
  /\ e.nodes[n].lastResult # NoResult
  /\ e.nodes[n].lastResult["true"] # Undefined

\* C17: in the diamond T -> B, T -> C, B -> D, C -> D (nodes 1, 2, 3, 4) D
\* is dispatched once per triggering branch: once B has returned having
\* populated its port, D was dispatched once, inside B's call and before C
\* is dispatched; once C has returned too, D was dispatched a second time,
\* inside C's call, and its executions counter is 2 when the run ends.
NoJoinAtFanIn ==
  \A r \in Runs :
    LET e == exec[r] IN
    (e.wf = WfDiamond /\ Populated(e, 1)) =>
      /\ (Populated(e, 2) /\ e.nodes[2].ret.returned) =>
           /\ TimesDispatched(e.nodes[2].ret.calls, 4) = 1
           /\ e.nodes[3].invocations = 0 => e.nodes[4].executions = 1
      /\ (Populated(e, 2) /\ e.nodes[2].ret.returned
          /\ Populated(e, 3) /\ e.nodes[3].ret.returned) =>
           /\ TimesDispatched(e.nodes[3].ret.calls, 4) = 1
           /\ e.nodes[4].executions = 2
           /\ e.nodes[4].invocations = 2

\* the run of the diamond has completed, every node having succeeded, with D
\* executed twice
NoJoinAtFanInWitness ==
  \E r \in Runs :
    /\ exec[r].wf = WfDiamond
    /\ call[r].pc = "settled"
    /\ exec[r].status = "completed"
    /\ \A n \in 1..3 : Populated(exec[r], n)
    /\ exec[r].nodes[4].status = "completed"
    /\ exec[r].nodes[4].executions = 2

\* C18: every dispatch at a fan-out that throws (the target's execute()
\* threw, or the dispatch was rejected at the execution cap) leaves an entry
\* for the target in the run's errors list, and the parent's executeFromNode
\* call still returns normally, the parent 'completed'.
FanOutFailuresAreLogged ==
  \A r \in Runs : \A fo \in FanOutsOf(r) :
    /\ \A k \in 1..Len(fo.calls) :
         fo.calls[k].outcome \in {"exec", "limit"} =>
           \E j \in 1..Len(exec[r].errors) : exec[r].errors[j].nodeId = fo.calls[k].target
    /\ fo.complete => exec[r].nodes[fo.node].status = "completed"

\* C19: the timeout is enforced at dispatch: from a state in which the time
\* elapsed since the run's startTime exceeds options.timeout, no step
\* invokes a node's execute(), and a run that leaves initializeNodes in such
\* a state, its first dispatch due, is 'failed'.
TimeoutEnforcedAtDispatch ==
  [][\A r \in Runs \cap DOMAIN exec' :
       exec[r].overdue =>
         /\ \A n \in DOMAIN exec'[r].nodes :
              exec'[r].nodes[n].invocations =
                IF n \in DOMAIN exec[r].nodes THEN exec[r].nodes[n].invocations ELSE 0
         /\ (call[r].pc = "init" /\ call'[r].pc # "init") => exec'[r].status = "failed"]_vars

\* C20: getActiveExecutions() returns only runs that are running: in every
\* state, the states in which stopExecution or the finally block of
\* executeWorkflow awaits a cleanup() hook included, every run of the
\* snapshot has status 'running'.
ActiveExecutionsAreRunning ==
  \A x \in getActiveExecutions : x.status = "running"

\* C21: variables are run-scoped.  A run starts with no variable; whenever
\* the variables of a run change, the step is a setVariable of a node of
\* that run (one of its execute() calls is in progress and no other run
\* moves or sees a variable of its own change); and the variables snapshot of
\* a returned ExecutionResult is what the nodes of that run alone set.
VariablesAreRunScoped ==
  [][/\ \A r \in DOMAIN exec' \ DOMAIN exec : exec'[r].variables = NoVariables
     /\ \A r \in Runs \cap DOMAIN exec' :
          /\ exec'[r].variables # exec[r].variables =>
               /\ call[r].pc = "exec"
               /\ \A q \in (Runs \cap DOMAIN exec') \ {r} :
                    /\ \A name \in VarNames :
                         getVariable(exec', q, name) = getVariable(exec, q, name)
                    /\ call'[q] = call[q]
          /\ call'[r].pending = "return" => call'[r].result.variables = exec'[r].variables]_vars

\* two runs in flight, each with a node executing, hold different values
\* under one name, and one of them a variable that the other does not have
VariablesAreRunScopedWitness ==
  /\ {1, 2} \subseteq DOMAIN exec
  /\ call[1].pc = "exec" /\ call[2].pc = "exec"
  /\ getVariable(exec, 1, "x") = 1 /\ getVariable(exec, 2, "x") = 2
  /\ getVariable(exec, 1, "y") = Undefined /\ getVariable(exec, 2, "y") = 1

\* a single chain: the first node is the only trigger and connection i
\* leads from node i to node i + 1
IsLinearChain(w) ==
  /\ w.hasNodes /\ w.hasConnections
  /\ Len(w.nodes) = Len(w.connections) + 1
  /\ \A i \in 1..Len(w.nodes) : w.nodes[i].type = IF i = 1 THEN "trigger" ELSE "action"
  /\ \A i \in 1..Len(w.connections) :
       w.connections[i].source = w.nodes[i].id /\ w.connections[i].target = w.nodes[i + 1].id
  /\ \A i, j \in 1..Len(w.nodes) : w.nodes[i].id = w.nodes[j].id => i = j

\* no hook of the run rejected: every node was initialized, and every
\* execute() that was invoked resolved and populated the port that the
\* node's outgoing connection reads
HooksSucceeded(e) ==
  /\ DOMAIN e.nodes = NodeIds(e.wf)
  /\ \A n \in DOMAIN e.nodes :
       /\ e.nodes[n].status # "failed"
       /\ e.nodes[n].status = "completed" =>
            \A p \in WiredPorts(e.wf, n) : e.nodes[n].lastResult[p] # Undefined

\* C22: a settled run of a valid single chain none of whose hooks rejected
\* and each of whose execute() calls populated the wired port has returned
\* an ExecutionResult of status 'completed' whose summary shows every node of
\* the chain with status 'completed' and executions 1; execute() was
\* invoked once on each.
LinearChainCompletes ==
  \A r \in Runs :
    (/\ call[r].pc = "settled"
     /\ IsLinearChain(exec[r].wf)
     /\ HooksSucceeded(exec[r]))
    => /\ call[r].outcome = "returned"
       /\ call[r].result.status = "completed"
       /\ DOMAIN call[r].result.nodeExecutions = NodeIds(exec[r].wf)
       /\ \A n \in NodeIds(exec[r].wf) :
            /\ call[r].result.nodeExecutions[n] = [status |-> "completed", executions |-> 1]
            /\ exec[r].nodes[n].invocations = 1

\* the longest chain has been walked to its end, through both output ports
LinearChainCompletesWitness ==
  \E r \in Runs :
    /\ call[r].pc = "settled"
    /\ IsLinearChain(exec[r].wf)
    /\ Len(exec[r].wf.connections) = MaxChain
    /\ {exec[r].wf.connections[i].sourcePort : i \in 1..MaxChain} = OutPorts
    /\ HooksSucceeded(exec[r])
    /\ call[r].result.nodeExecutions[MaxChain + 1].executions = 1

\* the nodes of w that a connection wires to themselves
SelfWired(w) ==
  IF w.hasNodes /\ w.hasConnections
  THEN {n \in NodeIds(w) : \E i \in 1..Len(w.connections) :
          w.connections[i].source = n /\ w.connections[i].target = n}
  ELSE {}

\* C23 as stated: a workflow in which a node A is wired to itself is
\* executed and A is dispatched until its count reaches the cap: when the
\* run has settled, A's executions counter is 100.
SelfLoopRunsToTheCap ==
  \A r \in Runs :
    (call[r].pc = "settled" /\ SelfWired(exec[r].wf) # {}) =>
      \E n \in SelfWired(exec[r].wf) :
        n \in DOMAIN exec[r].nodes /\ exec[r].nodes[n].executions = maxExecutions

\* C23, amended: a workflow in which a node is wired to itself is not
\* executed.  validateWorkflow reports circular dependencies and the run is
\* 'failed' with the validation error from the first step of executeWorkflow
\* on: no node is initialized or dispatched, and the call throws.
SelfLoopIsRejected ==
  \A r \in Runs :
    SelfWired(exec[r].wf) # {} =>
      /\ validateWorkflow(exec[r].wf).errors # <<>>
      /\ \E k \in 1..Len(validateWorkflow(exec[r].wf).errors) :
           validateWorkflow(exec[r].wf).errors[k].kind = "circular"
      /\ exec[r].status = "failed"
      /\ exec[r].error = Err("validation", 0)
      /\ DOMAIN exec[r].nodes = {}
      /\ call[r].pc = "settled" => call[r].outcome = "threw"

\* the run of a trigger wired to a node that is wired to itself has settled
SelfLoopIsRejectedWitness ==
  \E r \in Runs :
    /\ call[r].pc = "settled"
    /\ exec[r].wf = WfSelfLoop
    /\ SelfWired(exec[r].wf) = {2}
    /\ call[r].outcome = "threw"

\* C24: the cap that executeFromNode enforces is the cap configured for the
\* run: in a run started with options that set the cap to c, no node has
\* been dispatched, and none has had its execute() invoked, more than c
\* times.
ConfiguredCapIsEnforced ==
  \A r \in Runs : \A n \in DOMAIN exec[r].nodes :
    /\ exec[r].nodes[n].executions <= exec[r].options.maxNodes
    /\ exec[r].nodes[n].invocations <= exec[r].options.maxNodes

\* C25: stopExecution does not interrupt a node call in progress and
\* releases the run only once that call has returned: no step invokes the
\* cleanup() hook of a node of a run while an execute() call of that run is
\* still in progress, no cleanup() hook is invoked a second time, and when
\* the executeWorkflow call has settled and no stopExecution call on the run
\* is in flight, every node instance has had its cleanup() invoked once.
CleanupOnceAfterExecuteReturned ==
  [][\A r \in Runs \cap DOMAIN exec' :
       /\ \A n \in DOMAIN exec[r].nodes \cap DOMAIN exec'[r].nodes :
            exec'[r].nodes[n].cleanups > exec[r].nodes[n].cleanups =>
              /\ call'[r].pc # "exec"
              /\ exec'[r].nodes[n].cleanups = 1
       /\ (call'[r].pc = "settled" /\ \A k \in 1..Len(stop') : stop'[k].id = r => stop'[k].pc = "done")
            => \A n \in DOMAIN exec'[r].nodes : exec'[r].nodes[n].cleanups = 1]_vars

\* C26: a cleanup() hook that throws does not block the finalization of the
\* run.  While the finally block cleans up and moves the run to the history,
\* the status, the error, the result to return and the way the call is to
\* settle stay what they were before the first hook was called; and once the
\* call has settled, whichever hooks threw, the cleanup() hook of every node
\* has been invoked, the run is not in activeExecutions, the history holds
\* its record with its status, and the call returned its result if the run
\* completed and threw the original error if it failed.
CleanupFailureNeverBlocks ==
  [][\A r \in Runs \cap DOMAIN exec' :
       /\ call[r].pc \in {"cleanup", "move"} =>
            /\ exec'[r].status = exec[r].status
            /\ exec'[r].error = exec[r].error
            /\ exec'[r].errors = exec[r].errors
            /\ call'[r].result = call[r].result
            /\ call'[r].pending = call[r].pending
       /\ call'[r].pc = "settled" =>
            /\ \A n \in DOMAIN exec'[r].nodes : exec'[r].nodes[n].cleanups = 1
            /\ r \notin activeExecutions'
            /\ \E k \in 1..Len(executionHistory') :
                 /\ executionHistory'[k].id = r
                 /\ executionHistory'[k].status = exec'[r].status
            /\ call'[r].outcome = IF exec'[r].status = "completed" THEN "returned" ELSE "threw"
            /\ call'[r].outcome = "returned" => call'[r].result.status = "completed"]_vars

\* a run of several nodes has settled and returned although the cleanup()
\* hook of its first node threw; the hook of its last node did not
CleanupFailureNeverBlocksWitness ==
  \E r \in Runs :
    /\ call[r].pc = "settled"
    /\ call[r].outcome = "returned"
    /\ Len(exec[r].order) >= 2
    /\ exec[r].order[1] \in exec[r].cleanupWarnings
    /\ exec[r].order[Len(exec[r].order)] \notin exec[r].cleanupWarnings
    /\ exec[r].nodes[exec[r].order[Len(exec[r].order)]].cleanups = 1

\* the nodes of run r whose status is 'executing'
Executing(r) == {n \in DOMAIN exec[r].nodes : exec[r].nodes[n].status = "executing"}

\* the index in workflow.connections of the first connection s -> t
FirstConnection(w, s, t) ==
  CHOOSE i \in ConnsBetween(w, s, t) : \A j \in ConnsBetween(w, s, t) : i <= j

\* C27: within one run dispatch is sequential and depth-first in the order
\* in which the connections are declared.  The targets of a node are
\* dispatched in the order of their first connections; when a target is
\* dispatched every earlier dispatch of the fan-out has returned or thrown,
\* and so has everything dispatched below it: the only node with status
\* 'executing' is the one whose execute() the run awaits, so no two nodes
\* of a run are 'executing' at once.
DispatchIsDepthFirst ==
  \A r \in Runs :
    /\ Cardinality(Executing(r)) <= 1
    /\ Executing(r) = IF call[r].pc = "exec" /\ exec[r].status = "running"
                      THEN {Top(call[r].stack).nodeId} ELSE {}
    /\ \A fo \in FanOutsOf(r) :
         /\ \A j, k \in 1..Len(fo.calls) :
              j < k => /\ FirstConnection(exec[r].wf, fo.node, fo.calls[j].target)
                            < FirstConnection(exec[r].wf, fo.node, fo.calls[k].target)
                       /\ fo.calls[j].outcome # "pending"
         /\ fo.complete => \A k \in 1..Len(fo.calls) : fo.calls[k].outcome # "pending"

\* in the diamond the first target of the trigger has returned, having
\* dispatched the last node below it, and the second target is executing
DispatchIsDepthFirstWitness ==
  \E r \in Runs :
    /\ exec[r].wf = WfDiamond
    /\ call[r].pc = "exec"
    /\ Len(call[r].stack) = 2
    /\ Len(call[r].stack[1].calls) = 2
    /\ call[r].stack[1].calls[1].target = 2 /\ call[r].stack[1].calls[1].outcome = "ok"
    /\ call[r].stack[1].calls[2].target = 3 /\ call[r].stack[1].calls[2].outcome = "pending"
    /\ exec[r].nodes[2].ret.returned
    /\ Len(exec[r].nodes[2].ret.calls) = 1
    /\ exec[r].nodes[4].status = "completed"
    /\ Executing(r) = {3}

\* the number of execute() calls made in a run
RECURSIVE DispatchesOf(_, _)
DispatchesOf(e, k) ==
  IF k > Len(e.order) THEN 0 ELSE e.nodes[e.order[k]].invocations + DispatchesOf(e, k + 1)

\* the number of steps that the executeWorkflow call of run r can still
\* take at most: the initialize() hooks not yet returned, the dispatches
\* left under the cap, the cleanup() hooks not yet returned and the move to
\* the history
StepsLeft(e, c) ==
  LET N == Len(e.wf.nodes) IN
  CASE c.pc = "init" -> (N - c.i) + maxExecutions * N + N + 3
    [] c.pc = "exec" -> (maxExecutions * N - DispatchesOf(e, 1)) + N + 2
    [] c.pc = "cleanup" -> (Len(e.order) - c.i) + 2
    [] c.pc = "move" -> 1
    [] OTHER -> 0

\* C28: every executeWorkflow call settles provided each hook it awaits
\* returns or throws.  A call that has not settled awaits a hook or its own
\* continuation; every return or rejection of a hook takes the call strictly
\* closer to settling, by a measure that is never negative, so the call
\* settles after finitely many of them; it settles with the run 'completed'
\* or 'failed'.  No node is dispatched more than 100 times and the run makes
\* at most 100 x |nodes| dispatches in all.
WalkTerminates ==
  [][\A r \in Runs \cap DOMAIN exec' :
       /\ call[r].pc \in {"init", "exec", "cleanup", "move", "settled"}
       /\ StepsLeft(exec'[r], call'[r]) >= 0
       /\ (exec'[r] # exec[r] \/ call'[r] # call[r])
            => StepsLeft(exec'[r], call'[r]) < StepsLeft(exec[r], call[r])
       /\ call'[r].pc = "settled" => exec'[r].status \in {"completed", "failed"}
       /\ \A n \in DOMAIN exec'[r].nodes : exec'[r].nodes[n].invocations <= maxExecutions
       /\ DispatchesOf(exec'[r], 1) <= maxExecutions * Len(exec'[r].wf.nodes)]_vars

\* a call has settled whose run dispatched one node 100 times along
\* converging paths and had further dispatches of it rejected
WalkTerminatesWitness ==
  \E r \in Runs :
    /\ call[r].pc = "settled"
    /\ exec[r].wf = WfCap
    /\ exec[r].status = "completed"
    /\ exec[r].nodes[CapLast].invocations = maxExecutions
    /\ \E fo \in FanOutsOf(r) : \E k \in 1..Len(fo.calls) :
         fo.calls[k].target = CapLast /\ fo.calls[k].outcome = "limit"

\* the ids of the records of the history
HistoryIds(history) == {history[k].id : k \in 1..Len(history)}

\* C29: activeExecutions and the history are disjoint.  No execution id is
\* in both; a record is inserted for a run only when an earlier step has
\* deleted the run from activeExecutions; and a run that has left
\* activeExecutions is not registered there again.
ActiveAndHistoryDisjoint ==
  [][/\ activeExecutions \cap HistoryIds(executionHistory) = {}
     /\ activeExecutions' \cap HistoryIds(executionHistory') = {}
     /\ \A r \in Runs :
          /\ (Len(executionHistory') > Len(executionHistory) /\ executionHistory'[1].id = r)
               => r \notin activeExecutions
          /\ r \notin activeExecutions => r \notin activeExecutions']_vars

\* a stopExecution call has moved a run to the history while the run's
\* executeWorkflow call still awaits a node's execute()
ActiveAndHistoryDisjointWitness ==
  \E r \in Runs :
    /\ call[r].pc = "exec"
    /\ r \in HistoryIds(executionHistory)
    /\ r \notin activeExecutions
    /\ \E k \in 1..Len(stop) : stop[k].id = r /\ stop[k].pc = "done" /\ stop[k].ret = "true"

\* the dispatches of node n that run r has rejected at the cap, each as the
\* dispatching node and the position of the call in its fan-out
Rejections(r, n) ==
  UNION {{<<fo.node, k>> : k \in {j \in 1..Len(fo.calls) :
                                   fo.calls[j].target = n /\ fo.calls[j].outcome = "limit"}} :
           fo \in FanOutsOf(r)}

\* C30: a dispatch rejected at the execution cap leaves the node and the
\* run as they were.  A node whose executions counter is at 100 and that is
\* not executing keeps its status, executions, lastResult and error, and its
\* execute() is not invoked, in every step, the steps that dispatch it again
\* included; and a step in which such a dispatch is rejected leaves the
\* run's errors list as it was.
RejectedDispatchLeavesNoTrace ==
  [][\A r \in Runs \cap DOMAIN exec' : \A n \in DOMAIN exec[r].nodes :
       (exec[r].nodes[n].executions >= maxExecutions /\ exec[r].nodes[n].status # "executing")
         => /\ exec'[r].nodes[n].status = exec[r].nodes[n].status
            /\ exec'[r].nodes[n].executions = exec[r].nodes[n].executions
            /\ exec'[r].nodes[n].lastResult = exec[r].nodes[n].lastResult
            /\ exec'[r].nodes[n].error = exec[r].nodes[n].error
            /\ exec'[r].nodes[n].invocations = exec[r].nodes[n].invocations
            /\ Rejections(r, n)' # Rejections(r, n) => exec'[r].errors = exec[r].errors]_vars

\* several dispatches of a node have been rejected at the cap and the node
\* is as its 100th execution left it
RejectedDispatchLeavesNoTraceWitness ==
  \E r \in Runs : \E n \in DOMAIN exec[r].nodes :
    /\ Cardinality(Rejections(r, n)) >= 2
    /\ exec[r].nodes[n].status = "completed"
    /\ exec[r].nodes[n].executions = maxExecutions
    /\ exec[r].nodes[n].invocations = maxExecutions
    /\ exec[r].nodes[n].error = NoError
    /\ exec[r].errors = <<>>

====
